---- MODULE Spec2Model ----
(***************************************************************************)
(* ConvNetwork (hive/jax_agent/qnets/conv.py): construction (__init__) and *)
(* evaluation (forward), modelled statement by statement.                  *)
(*                                                                         *)
(* The layer library (nn.Conv, nn.relu, nn.Identity) and the tensor type   *)
(* (unsqueeze, reshape, size, float, /) are external collaborators; they   *)
(* are modelled as returning the layer object / tensor their contract      *)
(* names.  Everything the file itself decides is modelled by Python's      *)
(* semantics: indexing an int raises TypeError, calling a list raises      *)
(* TypeError, reading a name the module never binds raises NameError, and  *)
(* list.insert mutates the list object the caller passed in.               *)
(***************************************************************************)
EXTENDS Integers, Sequences, FiniteSets

VARIABLES
    channels,   \* the caller's channels object (the parameter aliases it)
    args,       \* the arguments of the construction call in progress
    loc,        \* __init__'s locals: kernel_sizes, strides, paddings, conv_seq, i
    self,       \* the instance under construction: conv, mlp, _normalization_factor
    pc,         \* position in __init__ / forward
    err,        \* the exception raised by the call in progress ("none" if none)
    net,        \* the instance the caller holds after a successful construction
    ncalls,     \* number of construction calls made on the same configuration
    x0,         \* the tensor passed to forward
    x,          \* forward's local x (a tensor, or an exception name)
    nfwd        \* number of forward calls made on the instance the caller holds

vars == <<channels, args, loc, self, pc, err, net, ncalls, x0, x, nfwd>>

----------------------------------------------------------------------------
(* Bounds *)

MaxLen == 2             \* longest channels list a caller starts with
MaxList == 3            \* longest kernel_sizes / strides / paddings list
MaxConstructions == 2   \* constructions made from one configuration object
MaxForwards == 1        \* forward calls per constructed instance

(* Program constants *)

DefaultKernelSize == 1
DefaultStride == 1
DefaultPadding == 0
DefaultNormalizationFactor == 255

----------------------------------------------------------------------------
(* Python values *)

None == [tag |-> "None", val |-> 0, items |-> <<>>]
IntArg(k) == [tag |-> "int", val |-> k, items |-> <<>>]
ListArg(s) == [tag |-> "list", val |-> 0, items |-> s]

\* an element of a paddings list: an int, or a pair (a, b)
PadInt(p) == [kind |-> "int", a |-> p, b |-> 0]
PadPair(p, q) == [kind |-> "pair", a |-> p, b |-> q]

Unset == [tag |-> "unset", layers |-> <<>>]
Identity == [tag |-> "Identity", layers |-> <<>>]
LayerList(s) == [tag |-> "list", layers |-> s]

\* len(p) for a list
PyLen(p) == Len(p.items)

\* nn.Conv(features=..., kernel_size=..., strides=..., padding=..., kernel_init=initializer)
Conv(features, kernel_size, strides, padding) ==
    [op |-> "Conv", features |-> features, kernel_size |-> kernel_size,
     strides |-> strides, padding |-> padding, kernel_init |-> "xavier_uniform"]

\* nn.relu()
Relu == [op |-> "relu"]

\* ((paddings[i][0], paddings[i][0]), (paddings[i][1], paddings[i][1]))
PaddingOf(p) == <<(<<p.a, p.a>>), (<<p.b, p.b>>)>>

\* paddings[i][0] is defined only when paddings[i] is subscriptable
Subscriptable(p) == p.kind = "pair"

\* [k] * len(channels) when isinstance(k, int); a list is left as it is
Broadcast(p, n) ==
    IF p.tag = "int" THEN ListArg([j \in 1..n |-> p.val]) ELSE p

BroadcastPad(p, n) ==
    IF p.tag = "int" THEN ListArg([j \in 1..n |-> PadInt(p.val)]) ELSE p

\* a validation that leaves paddings out of the list it checks
LengthsMatchNoPaddings(ks, st, pd, ch) ==
    /\ PyLen(ks) = PyLen(ch)
    /\ PyLen(st) = PyLen(ch)

\* all(len(x) == len(channels) for x in [kernel_sizes, strides, paddings])
LengthsMatch(ks, st, pd, ch) ==
    /\ PyLen(ks) = PyLen(ch)
    /\ PyLen(st) = PyLen(ch)
    /\ PyLen(pd) = PyLen(ch)

\* channels.append(in_dim[0]) in place of the insert at the head
InsertAtEnd(ch, v) == ListArg(ch.items \o <<v>>)

\* channels.insert(0, in_dim[0])
Insert0(ch, v) == ListArg(<<v>> \o ch.items)

----------------------------------------------------------------------------
(* Tensors: a shape, a dtype and the elements in row-major order, each an  *)
(* exact fraction n/d (float rounding is not modelled)                     *)

RECURSIVE Prod(_)
Prod(s) == IF s = <<>> THEN 1 ELSE Head(s) * Prod(Tail(s))

RECURSIVE GCD(_, _)
GCD(a, b) == IF b = 0 THEN a ELSE GCD(b, a % b)

Frac(n, d) == LET g == GCD(n, d) IN [n |-> n \div g, d |-> d \div g]

Tensor(shape, dtype, data) == [shape |-> shape, dtype |-> dtype, data |-> data]

\* the exception a call ended with, in place of the tensor it would return
Raised(e) == [shape |-> <<>>, dtype |-> e, data |-> <<>>]

IsTensor(t) == t.dtype \in {"uint8", "float"}

\* len(x.shape)
Rank(t) == Len(t.shape)

\* x.size(k), k negative counting from the end
Size(t, k) == IF k < 0 THEN t.shape[Rank(t) + 1 + k] ELSE t.shape[k + 1]

\* row-major offset of a 0-based index tuple
RECURSIVE Offset(_, _)
Offset(shape, idx) ==
    IF shape = <<>> THEN 0
    ELSE Head(idx) * Prod(Tail(shape)) + Offset(Tail(shape), Tail(idx))

\* x[idx]
At(t, idx) == t.data[Offset(t.shape, idx) + 1]

\* x.unsqueeze(-1) in place of x.unsqueeze(0)
UnsqueezeLast(t) == Tensor(t.shape \o <<1>>, t.dtype, t.data)

\* x.unsqueeze(0)
Unsqueeze0(t) == Tensor(<<1>> \o t.shape, t.dtype, t.data)

\* a reshape with the last two dimensions given in the wrong order
ReshapeSwapped(t, d0, d2, d3) ==
    Tensor(<<d0, Len(t.data) \div (d0 * d2 * d3), d3, d2>>, t.dtype, t.data)

\* x.reshape(d0, -1, d2, d3): the -1 is inferred from the element count
Reshape(t, d0, d2, d3) ==
    Tensor(<<d0, Len(t.data) \div (d0 * d2 * d3), d2, d3>>, t.dtype, t.data)

\* lines 105-108
RankStep(t) ==
    IF Rank(t) = 3 THEN Unsqueeze0(t)
    ELSE IF Rank(t) = 5 THEN Reshape(t, Size(t, 0), Size(t, -2), Size(t, -1))
    ELSE t

\* line 109: x.float()
ToFloat(t) == Tensor(t.shape, "float", t.data)

\* a division by the default factor in place of the instance's
NormalizeByDefault(n, t) ==
    Tensor(t.shape, t.dtype,
           [k \in 1..Len(t.data) |->
               Frac(t.data[k].n, t.data[k].d * DefaultNormalizationFactor)])

\* line 110: x / self._normalization_factor
Normalize(n, t) ==
    Tensor(t.shape, t.dtype,
           [k \in 1..Len(t.data) |-> Frac(t.data[k].n, t.data[k].d * n._normalization_factor)])

\* an identity stage that flattens what it is given
ApplyConvFlatten(n, t) ==
    IF n.conv.tag = "Identity"
    THEN Tensor(<<t.shape[1], Len(t.data) \div t.shape[1]>>, t.dtype, t.data)
    ELSE Raised("TypeError")

\* line 111: self.conv(x); a Python list is not callable
ApplyConv(n, t) == IF n.conv.tag = "Identity" THEN t ELSE Raised("TypeError")

\* line 112: self.mlp(x); self.mlp is nn.Identity() in every instance that
\* construction returns (line 97 raises before an MLPNetwork is built)
ApplyMlp(n, t) == IF n.mlp.tag = "Identity" THEN t ELSE Raised("TypeError")

\* lines 104-113 as one function of the instance and the input
ForwardOf(n, t) ==
    LET c == ApplyConv(n, Normalize(n, ToFloat(RankStep(t))))
    IN  IF IsTensor(c) THEN ApplyMlp(n, c) ELSE c

IntTensor(shape) ==
    Tensor(shape, "uint8", [k \in 1..Prod(shape) |-> Frac(k, 1)])

HalfTensor(shape) ==
    Tensor(shape, "float", [k \in 1..Prod(shape) |-> Frac(k, 2)])

InputTensors ==
    {IntTensor(<<2, 3>>), IntTensor(<<3, 1, 2>>), IntTensor(<<2, 3, 1, 2>>),
     HalfTensor(<<1, 3, 1, 2>>), IntTensor(<<2, 3, 2, 1, 2>>),
     HalfTensor(<<1, 2, 2, 2, 1>>)}

----------------------------------------------------------------------------
(* Inputs *)

Ramp(n, base) == [j \in 1..n |-> base + j]

ChannelLists ==
    {None} \cup {ListArg(Ramp(n, 10)) : n \in 0..MaxLen}

InDims == {<<4, 2, 2>>, <<3, 1, 2>>}

KernelArgs ==
    {IntArg(DefaultKernelSize)} \cup {ListArg(Ramp(n, 2)) : n \in 1..MaxList}

StrideArgs ==
    {IntArg(DefaultStride)} \cup {ListArg(Ramp(n, 1)) : n \in 1..MaxList}

PaddingArgs ==
    {IntArg(DefaultPadding)}
        \cup {ListArg([j \in 1..n |-> PadPair(j, j + 1)]) : n \in 1..MaxList}
        \cup {ListArg([j \in 1..n |-> PadInt(j)]) : n \in 1..MaxList}

MlpArgs == {None, ListArg(<<7>>)}

Factors == {DefaultNormalizationFactor, 2}

NoArgs ==
    [in_dim |-> <<>>, channels_in |-> None, mlp_layers |-> None,
     kernel_sizes |-> None, strides |-> None, paddings |-> None,
     normalization_factor |-> 0]

NoLoc ==
    [kernel_sizes |-> None, strides |-> None, paddings |-> None,
     conv_seq |-> <<>>, i |-> 0]

NoSelf == [conv |-> Unset, mlp |-> Unset, _normalization_factor |-> 0]

NoTensor == [shape |-> <<>>, dtype |-> "none", data |-> <<>>]

----------------------------------------------------------------------------
(* __init__ *)

Init ==
    /\ channels \in ChannelLists
    /\ args = NoArgs
    /\ loc = NoLoc
    /\ self = NoSelf
    /\ pc = "idle"
    /\ err = "none"
    /\ net = NoSelf
    /\ ncalls = 0
    /\ x0 = NoTensor
    /\ x = NoTensor
    /\ nfwd = 0

\* ConvNetwork(in_dim, channels, mlp_layers, kernel_sizes, strides, paddings,
\* normalization_factor): lines 61-64
Construct ==
    /\ pc = "idle"
    /\ ncalls < MaxConstructions
    /\ \E d \in InDims, m \in MlpArgs, ks \in KernelArgs, st \in StrideArgs,
          pd \in PaddingArgs, f \in Factors :
          /\ args' = [in_dim |-> d, channels_in |-> channels, mlp_layers |-> m,
                      kernel_sizes |-> ks, strides |-> st, paddings |-> pd,
                      normalization_factor |-> f]
          /\ loc' = [NoLoc EXCEPT !.kernel_sizes = ks, !.strides = st,
                                  !.paddings = pd]
          /\ self' = [NoSelf EXCEPT !._normalization_factor = f]
    /\ pc' = "l66"
    /\ err' = "none"
    /\ net' = NoSelf
    /\ ncalls' = ncalls + 1
    /\ nfwd' = 0
    /\ x0' = NoTensor
    /\ x' = NoTensor
    /\ UNCHANGED channels

\* lines 66-72: the scalar hyperparameters are broadcast
BroadcastParams ==
    /\ pc = "l66"
    /\ channels.tag # "None"
    /\ loc' = [loc EXCEPT
                 !.kernel_sizes = Broadcast(loc.kernel_sizes, PyLen(channels)),
                 !.strides = Broadcast(loc.strides, PyLen(channels)),
                 !.paddings = BroadcastPad(loc.paddings, PyLen(channels))]
    /\ pc' = "l74"
    /\ UNCHANGED <<channels, args, self, err, net, ncalls, x0, x, nfwd>>

\* a validation placed after the insert of line 80
ValidateAfterInsert ==
    /\ pc = "l74"
    /\ channels' = Insert0(channels, args.in_dim[1])
    /\ IF LengthsMatch(loc.kernel_sizes, loc.strides, loc.paddings, channels)
       THEN pc' = "l82" /\ err' = err
       ELSE pc' = "raised" /\ err' = "ValueError"
    /\ UNCHANGED <<args, loc, self, net, ncalls, x0, x, nfwd>>

\* lines 74-77: the lengths are validated
Validate ==
    /\ pc = "l74"
    /\ IF LengthsMatch(loc.kernel_sizes, loc.strides, loc.paddings, channels)
       THEN pc' = "l80" /\ err' = err
       ELSE pc' = "raised" /\ err' = "ValueError"
    /\ UNCHANGED <<channels, args, loc, self, net, ncalls, x0, x, nfwd>>

\* lines 80-81: the input channel count is inserted at the head of the list
\* object the caller passed
Prepend ==
    /\ pc = "l80"
    /\ channels' = Insert0(channels, args.in_dim[1])
    /\ loc' = [loc EXCEPT !.conv_seq = <<>>, !.i = 0]
    /\ pc' = "l82"
    /\ UNCHANGED <<args, self, err, net, ncalls, x0, x, nfwd>>

\* lines 82-90: one iteration of the loop
LoopStep ==
    /\ pc = "l82"
    /\ loc.i < PyLen(channels) - 1
    /\ LET i == loc.i IN
       IF Subscriptable(loc.paddings.items[i + 1])
       THEN /\ loc' = [loc EXCEPT
                         !.conv_seq = loc.conv_seq \o
                            <<Conv(channels.items[i + 2],
                                   loc.kernel_sizes.items[i + 1],
                                   loc.strides.items[i + 1],
                                   PaddingOf(loc.paddings.items[i + 1])),
                              Relu>>,
                         !.i = i + 1]
            /\ pc' = pc
            /\ err' = err
       ELSE /\ pc' = "raised"
            /\ err' = "TypeError"
            /\ loc' = loc
    /\ UNCHANGED <<channels, args, self, net, ncalls, x0, x, nfwd>>

\* line 91: self.conv = conv_seq
AssignConv ==
    /\ pc = "l82"
    /\ loc.i >= PyLen(channels) - 1
    /\ self' = [self EXCEPT !.conv = LayerList(loc.conv_seq)]
    /\ pc' = "l95"
    /\ UNCHANGED <<channels, args, loc, err, net, ncalls, x0, x, nfwd>>

\* lines 92-93: self.conv = nn.Identity()
ConvIdentity ==
    /\ pc = "l66"
    /\ channels.tag = "None"
    /\ self' = [self EXCEPT !.conv = Identity]
    /\ pc' = "l95"
    /\ UNCHANGED <<channels, args, loc, err, net, ncalls, x0, x, nfwd>>

\* lines 95-102: calculate_output_dim is a name the module never binds (its
\* import, line 14, is commented out), so line 97 raises NameError
BuildMlp ==
    /\ pc = "l95"
    /\ IF args.mlp_layers.tag # "None"
       THEN pc' = "raised" /\ err' = "NameError" /\ self' = self
       ELSE pc' = "ret" /\ err' = err /\ self' = [self EXCEPT !.mlp = Identity]
    /\ UNCHANGED <<channels, args, loc, net, ncalls, x0, x, nfwd>>

\* __init__ returns: the caller holds the instance
Return ==
    /\ pc = "ret"
    /\ net' = self
    /\ pc' = "idle"
    /\ args' = NoArgs
    /\ loc' = NoLoc
    /\ self' = NoSelf
    /\ UNCHANGED <<channels, err, ncalls, x0, x, nfwd>>

\* the exception propagates to the caller: no instance
Propagate ==
    /\ pc = "raised"
    /\ net' = NoSelf
    /\ pc' = "idle"
    /\ args' = NoArgs
    /\ loc' = NoLoc
    /\ self' = NoSelf
    /\ UNCHANGED <<channels, err, ncalls, x0, x, nfwd>>

----------------------------------------------------------------------------
(* forward *)

\* net.forward(t) on the instance the caller holds
Forward ==
    /\ pc = "idle"
    /\ net.conv.tag # "unset"
    /\ nfwd < MaxForwards
    /\ \E t \in InputTensors : x0' = t /\ x' = t
    /\ nfwd' = nfwd + 1
    /\ err' = "none"
    /\ pc' = "f105"
    /\ UNCHANGED <<channels, args, loc, self, net, ncalls>>

\* lines 105-108
FwdRank ==
    /\ pc = "f105"
    /\ x' = RankStep(x)
    /\ pc' = "f109"
    /\ UNCHANGED <<channels, args, loc, self, err, net, ncalls, x0, nfwd>>

\* line 109
FwdFloat ==
    /\ pc = "f109"
    /\ x' = ToFloat(x)
    /\ pc' = "f110"
    /\ UNCHANGED <<channels, args, loc, self, err, net, ncalls, x0, nfwd>>

\* line 110
FwdNormalize ==
    /\ pc = "f110"
    /\ x' = Normalize(net, x)
    /\ pc' = "f111"
    /\ UNCHANGED <<channels, args, loc, self, err, net, ncalls, x0, nfwd>>

\* line 111
FwdConv ==
    /\ pc = "f111"
    /\ LET r == ApplyConv(net, x) IN
       IF IsTensor(r)
       THEN x' = r /\ pc' = "f112" /\ err' = err
       ELSE x' = x /\ pc' = "fraised" /\ err' = r.dtype
    /\ UNCHANGED <<channels, args, loc, self, net, ncalls, x0, nfwd>>

\* line 112
FwdMlp ==
    /\ pc = "f112"
    /\ LET r == ApplyMlp(net, x) IN
       IF IsTensor(r)
       THEN x' = r /\ pc' = "f113" /\ err' = err
       ELSE x' = x /\ pc' = "fraised" /\ err' = r.dtype
    /\ UNCHANGED <<channels, args, loc, self, net, ncalls, x0, nfwd>>

\* line 113: return x; or the exception leaves forward
FwdReturn ==
    /\ pc \in {"f113", "fraised"}
    /\ pc' = "idle"
    /\ x0' = NoTensor
    /\ x' = NoTensor
    /\ UNCHANGED <<channels, args, loc, self, err, net, ncalls, nfwd>>

\* what the forward call in progress ends with
Outcome == IF pc = "fraised" THEN Raised(err) ELSE x

Next ==
    \/ Construct
    \/ BroadcastParams
    \/ Validate
    \/ Prepend
    \/ LoopStep
    \/ AssignConv
    \/ ConvIdentity
    \/ BuildMlp
    \/ Return
    \/ Propagate
    \/ Forward
    \/ FwdRank
    \/ FwdFloat
    \/ FwdNormalize
    \/ FwdConv
    \/ FwdMlp
    \/ FwdReturn

Spec == Init /\ [][Next]_vars

----------------------------------------------------------------------------
(* Properties *)

InCall == pc \in {"l66", "l74", "l80", "l82", "l95", "ret", "raised"}

InForward == pc \in {"f105", "f109", "f110", "f111", "f112", "f113", "fraised"}

ForwardEnded == pc \in {"f113", "fraised"}

\* the length of channels as the caller passed it
L == PyLen(args.channels_in)

\* some hyperparameter was passed as a list whose length is not len(channels)
WrongLength(p) == p.tag = "list" /\ PyLen(p) # L

ListMismatch ==
    \/ WrongLength(args.kernel_sizes)
    \/ WrongLength(args.strides)
    \/ WrongLength(args.paddings)

ScalarDefaults ==
    /\ args.kernel_sizes = IntArg(DefaultKernelSize)
    /\ args.strides = IntArg(DefaultStride)
    /\ args.paddings = IntArg(DefaultPadding)

\* C1: a construction call with channels a list and one of kernel_sizes,
\* strides, paddings a list of another length gets no further than the
\* validation, where it raises ValueError; the caller gets no instance.
C1_LengthMismatchRaises ==
    (InCall /\ args.channels_in.tag = "list" /\ ListMismatch) =>
        /\ pc \in {"l66", "l74", "raised"}
        /\ pc = "raised" => err = "ValueError"
        /\ net = NoSelf

C1_Witness ==
    /\ pc = "raised"
    /\ err = "ValueError"
    /\ L = 2
    /\ args.kernel_sizes.tag = "list" /\ PyLen(args.kernel_sizes) = 3
    /\ args.strides.tag = "int"
    /\ args.paddings.tag = "int"

\* C2: with channels a list of length L and the scalar defaults
\* kernel_sizes=1, strides=1, paddings=0 (mlp_layers left at None),
\* construction raises nothing and ends with a stage of 2L entries.
C2_ScalarDefaultsSucceed ==
    (InCall /\ args.channels_in.tag = "list" /\ ScalarDefaults
            /\ args.mlp_layers.tag = "None") =>
        /\ pc # "raised"
        /\ pc = "ret" => Len(self.conv.layers) = 2 * L

C4_IdentityStage ==
    /\ (pc \in {"l95", "ret"} /\ args.channels_in.tag = "None") =>
          self.conv = Identity
    /\ (pc = "ret" /\ args.mlp_layers.tag = "None") => self.mlp = Identity
    /\ (InForward /\ net.conv = Identity /\ Rank(x0) = 4) =>
          /\ pc # "fraised"
          /\ pc \in {"f112", "f113"} =>
                /\ x.shape = x0.shape
                /\ Len(x.data) = Len(x0.data)
                /\ \A k \in 1..Len(x0.data) :
                      x.data[k] = Frac(x0.data[k].n,
                                       x0.data[k].d * net._normalization_factor)

C4_Witness ==
    /\ pc = "f112"
    /\ net.conv = Identity
    /\ net.mlp = Identity
    /\ Rank(x0) = 4
    /\ x0.dtype = "uint8"
    /\ net._normalization_factor = DefaultNormalizationFactor

\* no hyperparameter list of the call has a length other than len(channels)
ValidConfig == args.channels_in.tag = "list" /\ ~ListMismatch

\* C5: a construction call with both channels and mlp_layers given (and no
\* list length mismatch) raises nothing, and ends with a fully-connected stage
\* that is a sub-network, not the identity.
C5_ConvAndMlpConstruct ==
    (InCall /\ ValidConfig /\ args.mlp_layers.tag = "list") =>
        /\ pc # "raised"
        /\ pc = "ret" => self.mlp.tag \notin {"unset", "Identity"}

\* the rank-4 tensor of shape (1, C, W, H) holding the values of a rank-3 one
Batch1(t) == Tensor(<<1, t.shape[1], t.shape[2], t.shape[3]>>, t.dtype, t.data)

\* C6: forward of a rank-3 input ends as forward of the rank-4 input of shape
\* (1,C,W,H) with the same values does; after the rank step a rank-3 input has
\* only gained a leading dimension of size 1 and a rank-4 input is unchanged.
C6_Rank3AsBatchOfOne ==
    /\ (ForwardEnded /\ Rank(x0) = 3) => Outcome = ForwardOf(net, Batch1(x0))
    /\ (pc = "f109" /\ Rank(x0) = 3) => x = Batch1(x0)
    /\ (pc = "f109" /\ Rank(x0) = 4) => x = x0

C6_Witness ==
    /\ pc = "f113"
    /\ Rank(x0) = 3
    /\ x.shape = <<1, 3, 1, 2>>

\* the rank-4 tensor of shape (B, S*C, W, H) whose element [b, s*C + c, w, h]
\* is element [b, s, c, w, h] of a rank-5 one
Collapse(t) ==
    LET B == t.shape[1]
        S == t.shape[2]
        C == t.shape[3]
        W == t.shape[4]
        H == t.shape[5]
        idx(k) == <<k \div (S * C * W * H),
                    (k \div (W * H)) % (S * C),
                    (k \div H) % W,
                    k % H>>
    IN  Tensor(<<B, S * C, W, H>>, t.dtype,
               [k \in 1..(B * S * C * W * H) |->
                   LET j == idx(k - 1) IN
                   At(t, <<j[1], j[2] \div C, j[2] % C, j[3], j[4]>>)])

\* C7: forward of a rank-5 input of shape (B,S,C,W,H) ends as forward of its
\* reshape to (B, S*C, W, H) does; after the rank step x is that reshape.
C7_Rank5Collapsed ==
    /\ (ForwardEnded /\ Rank(x0) = 5) => Outcome = ForwardOf(net, Collapse(x0))
    /\ (pc = "f109" /\ Rank(x0) = 5) => x = Collapse(x0)

C7_Witness ==
    /\ pc = "f113"
    /\ Rank(x0) = 5
    /\ x0.shape = <<2, 3, 2, 1, 2>>
    /\ x.shape = <<2, 6, 1, 2>>

\* C8: a construction call that returns leaves the caller's channels list as
\* it was passed in.
C8_ChannelsUnchanged ==
    (pc = "ret") => channels = args.channels_in

\* x / F, elementwise
PreDivide(t, F) ==
    Tensor(t.shape, "float",
           [k \in 1..Len(t.data) |-> Frac(t.data[k].n, t.data[k].d * F)])

Factor1(n) == [n EXCEPT !._normalization_factor = 1]

\* C9: forward on an instance with normalization factor F ends as forward of
\* the input divided by F does on the same instance with factor 1; up to and
\* including the cast the elements are the input's, and from the division on
\* they are the input's divided by F once.
C9_NormalizationFactor ==
    /\ ForwardEnded =>
          Outcome = ForwardOf(Factor1(net),
                              PreDivide(x0, net._normalization_factor))
    /\ pc \in {"f105", "f109", "f110"} => x.data = x0.data
    /\ pc \in {"f111", "f112", "f113", "fraised"} =>
          x.data = PreDivide(x0, net._normalization_factor).data

C9_Witness ==
    /\ pc = "f113"
    /\ net._normalization_factor = 2
    /\ x0.dtype = "uint8"
    /\ x0.data[1] = Frac(1, 1)
    /\ x.data[1] = Frac(1, 2)

\* C10: when construction raises the length-mismatch ValueError, no
\* convolution layer has been built, neither stage has been assigned, and the
\* caller's channels list is as it was passed in.
C10_ValueErrorBeforeAnyEffect ==
    (pc = "raised" /\ err = "ValueError") =>
        /\ loc.conv_seq = <<>>
        /\ self.conv = Unset
        /\ self.mlp = Unset
        /\ channels = args.channels_in
        /\ net = NoSelf

C10_Witness ==
    /\ pc = "raised"
    /\ err = "ValueError"
    /\ ncalls = 2
    /\ PyLen(channels) = 3
    /\ args.paddings.tag = "list"

====
